---- MODULE Spec2Model ----
(***************************************************************************)
(* Behaviour-tree step contract and the serial branch composites of        *)
(* src/behavior_tree/src: SerialBranchNode (serial_node.rs) and            *)
(* HomogeneousSerialNode (homogeneous_serial_node.rs).                     *)
(*                                                                         *)
(* A caller owns a pool of composite instances.  Stepping an instance      *)
(* takes it by value (fn step(self, ..)), so the instance leaves the pool; *)
(* a nonterminal result puts the returned continuation in the pool under a *)
(* new identity.  The enumerated node set is the test module's             *)
(* MultiMachine (variants Positive and Negative, both stateless            *)
(* PredicateWait leaves) with one more variant, Counter, whose leaf counts *)
(* its own steps, so that progress kept or thrown away by a composite can  *)
(* be seen.  SerialDecider is a trait: the decider Switcharound is the     *)
(* test's, the deciders PolicyA and PolicyB stand for arbitrary            *)
(* implementations and may return any decision.                            *)
(***************************************************************************)
EXTENDS Integers, Sequences, FiniteSets, TLC

VARIABLES pool, born, nextId, consumed, last, hist

vars == <<pool, born, nextId, consumed, last, hist>>

(***************************************************************************)
(* Bounds.                                                                 *)
(***************************************************************************)
\* Identities handed out over one run (every construction, clone and
\* continuation takes one).
MaxIds == 5
\* Largest step count a Counter leaf is driven to.
MaxCount == 2
\* Steps driven in the switcharound scenario.
MaxSteps == 5
\* Width in bits of the model's signed integers, standing for i64's 64.
IntBits == 4

(***************************************************************************)
(* Value spaces.                                                           *)
(***************************************************************************)
\* i64 inputs fed to step.
Inputs == {-5, 0, 5}
\* i64::MIN and i64::MAX at the model's width.
MinInt == -(2 ^ (IntBits - 1))
MaxInt == 2 ^ (IntBits - 1) - 1
\* The inputs of the switcharound scenario: the above and i64::MIN.
SwitchInputs == Inputs \cup {MinInt}
\* A value no leaf of the set returns on these inputs: what a decider may
\* put in Step(j) / Trans(e, j) in place of the subnode's value.
OtherOutput == 9
\* D::Exit values of the generic deciders.
ExitValues == {"x0", "x1"}

\* The $itername enumeration generated by enum_node!.
Discriminants == {"Positive", "Negative", "Counter"}
\* PosNegEnum of the test module.
PosNegEnum == {"Positive", "Negative"}

SerialDeciders == {"Switcharound", "PolicyA", "PolicyB"}
HomogeneousDeciders == {"HPolicyA", "HPolicyB"}

(***************************************************************************)
(* behavior_tree_node.rs: Statepoint and NodeResult.                       *)
(***************************************************************************)
Statepoint_Nonterminal(n) == [tag |-> "Nonterminal", n |-> n]
Statepoint_Terminal(t) == [tag |-> "Terminal", t |-> t]

Nonterminal(r, n) == [tag |-> "Nonterminal", r |-> r, n |-> n]
Terminal(t) == [tag |-> "Terminal", t |-> t]

(***************************************************************************)
(* serial_node.rs: decisions and the composite's nonterminal return.       *)
(***************************************************************************)
Step(j) == [tag |-> "Step", j |-> j]
Trans(e, j) == [tag |-> "Trans", e |-> e, j |-> j]
Exit(x) == [tag |-> "Exit", x |-> x]

NontermReturn_Nonterminal(e, n) == [tag |-> "Nonterminal", e |-> e, v |-> n]
NontermReturn_Terminal(e, t) == [tag |-> "Terminal", e |-> e, v |-> t]

(***************************************************************************)
(* Leaves.                                                                 *)
(***************************************************************************)
\* A Positive closure that negates what it returns at a terminal.
PositiveClosure_NegatesTerminal(input) ==
    IF input >= 0 THEN Statepoint_Nonterminal(input)
                  ELSE Statepoint_Terminal(-input)

\* The closure given to PredicateWait::new for the variant Positive.
PositiveClosure(input) ==
    IF input >= 0 THEN Statepoint_Nonterminal(input)
                  ELSE Statepoint_Terminal(input)

\* -x on i64 where the build does not check overflow: two's complement.
WrappingNeg(x) == ((-x - MinInt) % (2 ^ IntBits)) + MinInt

\* -x on i64 overflows (a panic where the build checks overflow).
NegOverflows(x) == -x > MaxInt

\* The closure given to PredicateWait::new for the variant Negative.
NegativeClosure(input) ==
    IF input >= 0 THEN Statepoint_Nonterminal(WrappingNeg(input))
                  ELSE Statepoint_Terminal(WrappingNeg(input))

\* base_nodes::PredicateWait: the node keeps no state of its own; a
\* nonterminal statepoint returns the node itself as the continuation.
PredicateWait_step(val, statepoint) ==
    IF statepoint.tag = "Nonterminal"
    THEN Nonterminal(statepoint.n, val)
    ELSE Terminal(statepoint.t)

\* A leaf that counts in a place all its instances share: it reports how
\* many steps any composite has taken.
Counter_step_SharedCount(val, input) ==
    IF input >= 0 THEN Nonterminal(Cardinality(consumed), val + 1)
                  ELSE Terminal(Cardinality(consumed))

\* A leaf with progress: it reports how many steps it has taken and goes
\* terminal on a negative input.
Counter_step(val, input) ==
    IF input >= 0 THEN Nonterminal(val, val + 1)
                  ELSE Terminal(val)

\* Payload step of one variant: the node type behind the variant name.
VariantStep(name, val, input) ==
    CASE name = "Positive" -> PredicateWait_step(val, PositiveClosure(input))
      [] name = "Negative" -> PredicateWait_step(val, NegativeClosure(input))
      [] name = "Counter"  -> Counter_step(val, input)

(***************************************************************************)
(* enum_node!: the enumerated node set ($name) and its EnumNode impl.      *)
(***************************************************************************)
\* A value $name::$variant(payload).
Variant(name, val) == [tag |-> "MultiMachine::" \o name, val |-> val]

\* EnumNode::new: the variant named by the discriminant, its payload built
\* by the variant's constructor expression.
EnumNode_new(discriminant) ==
    CASE discriminant = "Positive" -> Variant("Positive", 0)
      [] discriminant = "Negative" -> Variant("Negative", 0)
      [] discriminant = "Counter"  -> Variant("Counter", 0)

\* discriminant_of with the last two arms exchanged.
discriminant_of_Swapped(self) ==
    CASE self.tag = "MultiMachine::Positive" -> "Positive"
      [] self.tag = "MultiMachine::Negative" -> "Counter"
      [] self.tag = "MultiMachine::Counter"  -> "Negative"

\* EnumNode::discriminant_of.
discriminant_of(self) ==
    CASE self.tag = "MultiMachine::Positive" -> "Positive"
      [] self.tag = "MultiMachine::Negative" -> "Negative"
      [] self.tag = "MultiMachine::Counter"  -> "Counter"

\* An arm that puts every continuation under the first variant.
EnumArm_FirstVariant(name, val, input) ==
    LET res == VariantStep(name, val, input)
    IN  IF res.tag = "Nonterminal"
        THEN Nonterminal(res.r, Variant("Positive", res.n))
        ELSE Terminal(res.t)

\* One arm of BehaviorTreeNode::step for $name: step the payload and put a
\* continuation back under the same variant.
EnumArm(name, val, input) ==
    LET res == VariantStep(name, val, input)
    IN  IF res.tag = "Nonterminal"
        THEN Nonterminal(res.r, Variant(name, res.n))
        ELSE Terminal(res.t)

\* BehaviorTreeNode::step for $name.
EnumNode_step(self, input) ==
    CASE self.tag = "MultiMachine::Positive" -> EnumArm("Positive", self.val, input)
      [] self.tag = "MultiMachine::Negative" -> EnumArm("Negative", self.val, input)
      [] self.tag = "MultiMachine::Counter"  -> EnumArm("Counter", self.val, input)

\* The enumerated nodes that can be alive within the bounds.
EnumNodes ==
    {Variant("Positive", 0), Variant("Negative", 0)}
        \cup {Variant("Counter", c) : c \in 0..MaxCount}

(***************************************************************************)
(* SerialDecider implementations.                                          *)
(***************************************************************************)
\* The values a generic decider may hand back for the subnode value o.
Outputs(o) == {o, OtherOutput}

\* Switcharound::on_nonterminal.
Switcharound_on_nonterminal(input, s, o) == Step(o)

\* on_terminal that restarts the variant that just ended.
Switcharound_on_terminal_Stays(input, state, o) ==
    CASE state = "Positive" -> Trans("Positive", o)
      [] state = "Negative" -> Trans("Negative", o)

\* on_terminal that leaves the composite once Negative has ended.
Switcharound_on_terminal_Exits(input, state, o) ==
    CASE state = "Positive" -> Trans("Negative", o)
      [] state = "Negative" -> Exit("unit")

\* Switcharound::on_terminal.
Switcharound_on_terminal(input, state, o) ==
    CASE state = "Positive" -> Trans("Negative", o)
      [] state = "Negative" -> Trans("Positive", o)

\* SerialDecider::on_nonterminal: the decisions the decider can return.
on_nonterminal(decider, input, e, o) ==
    IF decider = "Switcharound"
    THEN {Switcharound_on_nonterminal(input, e, o)}
    ELSE {Step(j) : j \in Outputs(o)}
            \cup {Trans(e2, j) : e2 \in Discriminants, j \in Outputs(o)}
            \cup {Exit(x) : x \in ExitValues}

\* SerialDecider::on_terminal: the decisions the decider can return.
on_terminal(decider, input, e, o) ==
    IF decider = "Switcharound"
    THEN {Switcharound_on_terminal(input, e, o)}
    ELSE {Trans(e2, j) : e2 \in Discriminants, j \in Outputs(o)}
            \cup {Exit(x) : x \in ExitValues}

(***************************************************************************)
(* serial_node.rs: SerialBranchNode.                                       *)
(***************************************************************************)
\* SerialBranchNode::new.
SerialBranchNode_new(decider, variant) ==
    [kind |-> "SerialBranchNode", node |-> EnumNode_new(variant), decider |-> decider]

\* SerialBranchNode::from_existing.
from_existing(decider, existing) ==
    [kind |-> "SerialBranchNode", node |-> existing, decider |-> decider]

\* Nonterminal arms in which a transition to the selector already active
\* keeps the running subnode.
NontermArm_TransToSelfKeeps(self, discriminant, n, dec) ==
    CASE dec.tag = "Step" ->
            Nonterminal(NontermReturn_Nonterminal(discriminant, dec.j),
                        from_existing(self.decider, n))
      [] dec.tag = "Trans" ->
            Nonterminal(NontermReturn_Nonterminal(discriminant, dec.j),
                        IF dec.e = discriminant
                        THEN from_existing(self.decider, n)
                        ELSE SerialBranchNode_new(self.decider, dec.e))
      [] dec.tag = "Exit" -> Terminal(dec.x)

\* Nonterminal arms in which the NontermReturn of a transition is tagged
\* Terminal.
NontermArm_TransTagsTerminal(self, discriminant, n, dec) ==
    CASE dec.tag = "Step" ->
            Nonterminal(NontermReturn_Nonterminal(discriminant, dec.j),
                        from_existing(self.decider, n))
      [] dec.tag = "Trans" ->
            Nonterminal(NontermReturn_Terminal(discriminant, dec.j),
                        SerialBranchNode_new(self.decider, dec.e))
      [] dec.tag = "Exit" -> Terminal(dec.x)

\* Nonterminal arms in which Step rebuilds the active variant.
NontermArm_StepRebuilds(self, discriminant, n, dec) ==
    CASE dec.tag = "Step" ->
            Nonterminal(NontermReturn_Nonterminal(discriminant, dec.j),
                        SerialBranchNode_new(self.decider, discriminant))
      [] dec.tag = "Trans" ->
            Nonterminal(NontermReturn_Nonterminal(discriminant, dec.j),
                        SerialBranchNode_new(self.decider, dec.e))
      [] dec.tag = "Exit" -> Terminal(dec.x)

\* Nonterminal arms in which a transition builds the new composite with the
\* default decider.
NontermArm_TransDefaultDecider(self, discriminant, n, dec) ==
    CASE dec.tag = "Step" ->
            Nonterminal(NontermReturn_Nonterminal(discriminant, dec.j),
                        from_existing(self.decider, n))
      [] dec.tag = "Trans" ->
            Nonterminal(NontermReturn_Nonterminal(discriminant, dec.j),
                        SerialBranchNode_new("PolicyA", dec.e))
      [] dec.tag = "Exit" -> Terminal(dec.x)

\* The arms of step taken on a nonterminal subnode result (i, n), by the
\* decision on_nonterminal returned.
NontermArm(self, discriminant, n, dec) ==
    CASE dec.tag = "Step" ->
            Nonterminal(NontermReturn_Nonterminal(discriminant, dec.j),
                        from_existing(self.decider, n))
      [] dec.tag = "Trans" ->
            Nonterminal(NontermReturn_Nonterminal(discriminant, dec.j),
                        SerialBranchNode_new(self.decider, dec.e))
      [] dec.tag = "Exit" -> Terminal(dec.x)

\* Terminal arms that report the selector the transition goes to.
TermArm_ReportsTarget(self, discriminant, dec) ==
    CASE dec.tag = "Trans" ->
            Nonterminal(NontermReturn_Terminal(dec.e, dec.j),
                        SerialBranchNode_new(self.decider, dec.e))
      [] dec.tag = "Exit" -> Terminal(dec.x)

\* Terminal arms that end the composite with the subnode.
TermArm_Propagates(self, discriminant, dec) ==
    CASE dec.tag = "Trans" -> Terminal(dec.j)
      [] dec.tag = "Exit" -> Terminal(dec.x)

\* Terminal arms in which a transition to the selector already active keeps
\* the node the composite held.
TermArm_TransToSelfKeeps(self, discriminant, dec) ==
    CASE dec.tag = "Trans" ->
            Nonterminal(NontermReturn_Terminal(discriminant, dec.j),
                        IF dec.e = discriminant
                        THEN from_existing(self.decider, self.node)
                        ELSE SerialBranchNode_new(self.decider, dec.e))
      [] dec.tag = "Exit" -> Terminal(dec.x)

\* The arms of step taken on a terminal subnode result, by the decision
\* on_terminal returned.
TermArm(self, discriminant, dec) ==
    CASE dec.tag = "Trans" ->
            Nonterminal(NontermReturn_Terminal(discriminant, dec.j),
                        SerialBranchNode_new(self.decider, dec.e))
      [] dec.tag = "Exit" -> Terminal(dec.x)

\* What one run of step did: the discriminant it captured, the subnode's
\* result, the calls it made in order, the decider call and its answer, and
\* the NodeResult it returned.
Outcome(discriminant, sub, calls, dec, result) ==
    [discriminant |-> discriminant, sub |-> sub, calls |-> calls,
     decision |-> dec, result |-> result]

\* The calls one run of step makes, in the order it makes them.
CallDiscriminant == [op |-> "discriminant_of"]
CallNodeStep(input) == [op |-> "node.step", input |-> input]
CallDecider(op, input, e, v) == [op |-> op, input |-> input, e |-> e, v |-> v]

\* A composite step that reports the subnode's own value, whatever output
\* the decision carries.
SerialBranchNode_step_ReportsSubValue(self, input) ==
    LET discriminant == discriminant_of(self.node)
        sub == EnumNode_step(self.node, input)
    IN  IF sub.tag = "Nonterminal"
        THEN {Outcome(discriminant, sub,
                      <<CallDiscriminant, CallNodeStep(input),
                        CallDecider("on_nonterminal", input, discriminant, sub.r)>>,
                      dec,
                      NontermArm(self, discriminant, sub.n,
                                 IF dec.tag = "Exit" THEN dec
                                 ELSE [dec EXCEPT !.j = sub.r])) :
                dec \in on_nonterminal(self.decider, input, discriminant, sub.r)}
        ELSE {Outcome(discriminant, sub,
                      <<CallDiscriminant, CallNodeStep(input),
                        CallDecider("on_terminal", input, discriminant, sub.t)>>,
                      dec,
                      TermArm(self, discriminant,
                              IF dec.tag = "Exit" THEN dec
                              ELSE [dec EXCEPT !.j = sub.t])) :
                dec \in on_terminal(self.decider, input, discriminant, sub.t)}

\* A composite step that hands the decider the subnode's value where the
\* input belongs and the input where the value belongs.
SerialBranchNode_step_SwapsArguments(self, input) ==
    LET discriminant == discriminant_of(self.node)
        sub == EnumNode_step(self.node, input)
    IN  IF sub.tag = "Nonterminal"
        THEN {Outcome(discriminant, sub,
                      <<CallDiscriminant, CallNodeStep(input),
                        CallDecider("on_nonterminal", sub.r, discriminant, input)>>,
                      dec, NontermArm(self, discriminant, sub.n, dec)) :
                dec \in on_nonterminal(self.decider, sub.r, discriminant, input)}
        ELSE {Outcome(discriminant, sub,
                      <<CallDiscriminant, CallNodeStep(input),
                        CallDecider("on_terminal", sub.t, discriminant, input)>>,
                      dec, TermArm(self, discriminant, dec)) :
                dec \in on_terminal(self.decider, sub.t, discriminant, input)}

\* A composite step that asks on_terminal whatever the subnode returned.
SerialBranchNode_step_AlwaysOnTerminal(self, input) ==
    LET discriminant == discriminant_of(self.node)
        sub == EnumNode_step(self.node, input)
        v == IF sub.tag = "Nonterminal" THEN sub.r ELSE sub.t
    IN  {Outcome(discriminant, sub,
                 <<CallDiscriminant, CallNodeStep(input),
                   CallDecider("on_terminal", input, discriminant, v)>>,
                 dec, TermArm(self, discriminant, dec)) :
            dec \in on_terminal(self.decider, input, discriminant, v)}

\* BehaviorTreeNode::step for SerialBranchNode: every outcome the decider's
\* answer allows.
SerialBranchNode_step(self, input) ==
    LET discriminant == discriminant_of(self.node)
        sub == EnumNode_step(self.node, input)
    IN  IF sub.tag = "Nonterminal"
        THEN {Outcome(discriminant, sub,
                      <<CallDiscriminant, CallNodeStep(input),
                        CallDecider("on_nonterminal", input, discriminant, sub.r)>>,
                      dec, NontermArm(self, discriminant, sub.n, dec)) :
                dec \in on_nonterminal(self.decider, input, discriminant, sub.r)}
        ELSE {Outcome(discriminant, sub,
                      <<CallDiscriminant, CallNodeStep(input),
                        CallDecider("on_terminal", input, discriminant, sub.t)>>,
                      dec, TermArm(self, discriminant, dec)) :
                dec \in on_terminal(self.decider, input, discriminant, sub.t)}

(***************************************************************************)
(* homogeneous_serial_node.rs: HomogeneousSerialNode.                      *)
(***************************************************************************)
HStep == [tag |-> "Step"]
HTrans(e) == [tag |-> "Trans", e |-> e]
HExit(x) == [tag |-> "Exit", x |-> x]

\* The common node type N: a leaf that carries its own shape.
N_node(shape, val) == [shape |-> shape, val |-> val]

\* N::step.
N_step(n, input) ==
    LET res == VariantStep(n.shape, n.val, input)
    IN  IF res.tag = "Nonterminal"
        THEN Nonterminal(res.r, N_node(n.shape, res.n))
        ELSE Terminal(res.t)

\* NodeEnumeration::new.
NodeEnumeration_new(enumerator) ==
    [enumerator |-> enumerator, inner |-> N_node(enumerator, 0)]

\* NodeEnumeration::from_existing: the enumerator is read off the node.
NodeEnumeration_from_existing(n) == [enumerator |-> n.shape, inner |-> n]

\* NodeEnumeration::discriminant.
discriminant(self) == self.enumerator

\* NodeEnumeration::inner_val.
inner_val(self) == self.inner

\* SerialDecider::on_nonterminal (associated function of the type D).
H_on_nonterminal(D, e, n) ==
    {HStep} \cup {HTrans(e2) : e2 \in Discriminants}
            \cup {HExit(x) : x \in ExitValues}

\* SerialDecider::on_terminal (associated function of the type D).
H_on_terminal(D, e, t) ==
    {HTrans(e2) : e2 \in Discriminants} \cup {HExit(x) : x \in ExitValues}

\* HomogeneousSerialNode::new; D is the decider type parameter.
HomogeneousSerialNode_new(D, variant) ==
    [kind |-> "HomogeneousSerialNode", node |-> NodeEnumeration_new(variant),
     decider |-> D]

\* HomogeneousSerialNode::from_existing_node.
from_existing_node(D, existing) ==
    [kind |-> "HomogeneousSerialNode",
     node |-> NodeEnumeration_from_existing(existing), decider |-> D]

\* The arms of step on a nonterminal subnode result (i, n).
HNontermArm(self, disc, i, n, dec) ==
    CASE dec.tag = "Step" ->
            Nonterminal(NontermReturn_Nonterminal(disc, i),
                        from_existing_node(self.decider, n))
      [] dec.tag = "Trans" ->
            Nonterminal(NontermReturn_Nonterminal(disc, i),
                        HomogeneousSerialNode_new(self.decider, dec.e))
      [] dec.tag = "Exit" -> Terminal(dec.x)

\* Terminal arms that report the selector the transition goes to.
HTermArm_ReportsTarget(self, disc, i, dec) ==
    CASE dec.tag = "Trans" ->
            Nonterminal(NontermReturn_Terminal(dec.e, i),
                        HomogeneousSerialNode_new(self.decider, dec.e))
      [] dec.tag = "Exit" -> Terminal(dec.x)

\* The arms of step on a terminal subnode result i.
HTermArm(self, disc, i, dec) ==
    CASE dec.tag = "Trans" ->
            Nonterminal(NontermReturn_Terminal(disc, i),
                        HomogeneousSerialNode_new(self.decider, dec.e))
      [] dec.tag = "Exit" -> Terminal(dec.x)

\* BehaviorTreeNode::step for HomogeneousSerialNode.
HomogeneousSerialNode_step(self, input) ==
    LET disc == discriminant(self.node)
        sub == N_step(inner_val(self.node), input)
    IN  IF sub.tag = "Nonterminal"
        THEN {Outcome(disc, sub,
                      <<[op |-> "discriminant"], [op |-> "inner_val"],
                        CallNodeStep(input),
                        [op |-> "on_nonterminal", e |-> disc, v |-> sub.r]>>,
                      dec, HNontermArm(self, disc, sub.r, sub.n, dec)) :
                dec \in H_on_nonterminal(self.decider, disc, sub.r)}
        ELSE {Outcome(disc, sub,
                      <<[op |-> "discriminant"], [op |-> "inner_val"],
                        CallNodeStep(input),
                        [op |-> "on_terminal", e |-> disc, v |-> sub.t]>>,
                      dec, HTermArm(self, disc, sub.t, dec)) :
                dec \in H_on_terminal(self.decider, disc, sub.t)}

(***************************************************************************)
(* The caller: construction, the drive loop and clone.                     *)
(***************************************************************************)
\* The selector a live composite reports.
SelectorOf(c) ==
    IF c.kind = "SerialBranchNode" THEN discriminant_of(c.node)
                                   ELSE discriminant(c.node)

\* The count held by the active leaf.
ValOf(c) ==
    IF c.kind = "SerialBranchNode" THEN c.node.val ELSE c.node.inner.val

\* step through a reference: the stepped instance stays owned.
Owned_Borrowed(ids, id) == ids

\* step takes self by value: the stepped instance is no longer owned.
Owned(ids, id) == ids \ {id}

\* The composites a caller can construct: new or from_existing on either
\* composite type.  Switcharound matches on PosNegEnum only.
Constructions ==
    {[c |-> SerialBranchNode_new(d, s), how |-> "new", sel |-> s] :
        d \in SerialDeciders \ {"Switcharound"}, s \in Discriminants}
    \cup {[c |-> SerialBranchNode_new("Switcharound", s), how |-> "new", sel |-> s] :
        s \in PosNegEnum}
    \cup {[c |-> from_existing(d, Variant("Counter", v)), how |-> "existing",
           sel |-> "Counter"] :
        d \in SerialDeciders \ {"Switcharound"}, v \in 1..MaxCount}
    \cup {[c |-> HomogeneousSerialNode_new(D, s), how |-> "new", sel |-> s] :
        D \in HomogeneousDeciders, s \in Discriminants}
    \cup {[c |-> from_existing_node(D, N_node("Counter", v)), how |-> "existing",
           sel |-> "Counter"] :
        D \in HomogeneousDeciders, v \in 1..MaxCount}

NoStep == [op |-> "none"]

Init ==
    \E k \in Constructions :
        /\ pool = [i \in {1} |-> k.c]
        /\ born = [i \in {1} |-> [how |-> k.how, sel |-> k.sel,
                                   decider |-> k.c.decider]]
        /\ nextId = 2
        /\ consumed = {}
        /\ last = NoStep
        /\ hist = <<>>

\* The pool, and the record of how each instance came to be, after instance
\* id was stepped with outcome out.
Taken(id, input, out) ==
    LET keep == Owned(DOMAIN pool, id)
        cont == out.result.tag = "Nonterminal"
        b == IF out.decision.tag = "Trans"
             THEN [born[id] EXCEPT !.how = "trans", !.sel = out.decision.e]
             ELSE [born[id] EXCEPT !.how = "step"]
    IN  /\ pool' = [i \in keep \cup (IF cont THEN {nextId} ELSE {}) |->
                        IF i \in keep THEN pool[i] ELSE out.result.n]
        /\ born' = [i \in keep \cup (IF cont THEN {nextId} ELSE {}) |->
                        IF i \in keep THEN born[i] ELSE b]
        /\ nextId' = IF cont THEN nextId + 1 ELSE nextId
        /\ consumed' = consumed \cup {id}
        /\ last' = [op |-> "step", self |-> id, pre |-> pool[id],
                    preBorn |-> born[id], input |-> input, out |-> out,
                    cont |-> IF cont THEN nextId ELSE 0]

\* The caller steps a SerialBranchNode it owns.
StepSerial(id, input) ==
    /\ id \in DOMAIN pool
    /\ pool[id].kind = "SerialBranchNode"
    /\ nextId <= MaxIds
    /\ \E out \in SerialBranchNode_step(pool[id], input) :
        /\ out.sub.tag = "Nonterminal" => out.sub.n.val <= MaxCount
        /\ Taken(id, input, out)
    /\ UNCHANGED hist

\* The caller steps a HomogeneousSerialNode it owns.
StepHomogeneous(id, input) ==
    /\ id \in DOMAIN pool
    /\ pool[id].kind = "HomogeneousSerialNode"
    /\ nextId <= MaxIds
    /\ \E out \in HomogeneousSerialNode_step(pool[id], input) :
        /\ out.sub.tag = "Nonterminal" => out.sub.n.val <= MaxCount
        /\ Taken(id, input, out)
    /\ UNCHANGED hist

\* #[derive(Clone)] on SerialBranchNode: a second instance in the same state.
Clone(id) ==
    /\ id \in DOMAIN pool
    /\ pool[id].kind = "SerialBranchNode"
    /\ nextId <= MaxIds
    /\ pool' = [i \in DOMAIN pool \cup {nextId} |->
                    IF i \in DOMAIN pool THEN pool[i] ELSE pool[id]]
    /\ born' = [i \in DOMAIN pool \cup {nextId} |->
                    IF i \in DOMAIN pool THEN born[i] ELSE born[id]]
    /\ nextId' = nextId + 1
    /\ last' = [op |-> "clone", self |-> id, cont |-> nextId]
    /\ UNCHANGED <<consumed, hist>>

Next ==
    \/ \E id \in 1..MaxIds, input \in Inputs : StepSerial(id, input)
    \/ \E id \in 1..MaxIds, input \in Inputs : StepHomogeneous(id, input)
    \/ \E id \in 1..MaxIds : Clone(id)

Spec == Init /\ [][Next]_vars

(***************************************************************************)
(* The switcharound scenario of serial_switcharound_test: one composite,   *)
(* SerialBranchNode<MultiMachine, Switcharound>, built at Positive and     *)
(* driven with one input after another.  hist keeps, for every step, the   *)
(* input, the selector before it, what the leaf returned, what the         *)
(* composite returned and the selector the continuation reports.           *)
(***************************************************************************)
\* test_node of the test.
SwitchNode == SerialBranchNode_new("Switcharound", "Positive")

InitSwitch ==
    /\ pool = [i \in {1} |-> SwitchNode]
    /\ born = [i \in {1} |-> [how |-> "new", sel |-> "Positive",
                               decider |-> "Switcharound"]]
    /\ nextId = 2
    /\ consumed = {}
    /\ last = NoStep
    /\ hist = <<>>

\* The Negative closure negates its input before anything else: on i64::MIN
\* that overflows.
ClosureOverflows(node, input) ==
    node.tag = "MultiMachine::Negative" /\ NegOverflows(input)

\* What hist keeps of a step that returned.
Entry(self, input, out) ==
    [input |-> input, before |-> discriminant_of(self.node),
     sub |-> out.sub.tag,
     subval |-> IF out.sub.tag = "Nonterminal" THEN out.sub.r ELSE out.sub.t,
     result |-> out.result.tag,
     ret |-> IF out.result.tag = "Nonterminal" THEN out.result.r ELSE out.result.t,
     after |-> IF out.result.tag = "Nonterminal"
               THEN discriminant_of(out.result.n.node) ELSE "none"]

\* test_node_k.step(&input) returns.  Where the closure's negation
\* overflows this is the build without overflow checks.
SwitchStep(input) ==
    /\ Len(hist) < MaxSteps
    /\ \E id \in DOMAIN pool :
        \E out \in SerialBranchNode_step(pool[id], input) :
            /\ Taken(id, input, out)
            /\ hist' = Append(hist, Entry(pool[id], input, out))

\* test_node_k.step(&input) panics in the closure: the build checks
\* overflow.  The node was moved into the call and is gone.
SwitchPanic(input) ==
    /\ Len(hist) < MaxSteps
    /\ \E id \in DOMAIN pool :
        /\ ClosureOverflows(pool[id].node, input)
        /\ pool' = [i \in Owned(DOMAIN pool, id) |-> pool[i]]
        /\ born' = [i \in Owned(DOMAIN pool, id) |-> born[i]]
        /\ consumed' = consumed \cup {id}
        /\ last' = [op |-> "panic", self |-> id, pre |-> pool[id],
                    input |-> input]
        /\ hist' = Append(hist, [input |-> input,
                                 before |-> discriminant_of(pool[id].node),
                                 result |-> "panic"])
        /\ UNCHANGED nextId

NextSwitch ==
    \/ \E input \in SwitchInputs : SwitchStep(input)
    \/ \E input \in SwitchInputs : SwitchPanic(input)

SpecSwitch == InitSwitch /\ [][NextSwitch]_vars

(***************************************************************************)
(* The two composites side by side: a SerialBranchNode (instance 1 and its *)
(* continuations, odd identities) and a HomogeneousSerialNode (instance 2  *)
(* and its continuations, even identities) built at the same selector and  *)
(* stepped with the same inputs.  The homogeneous decider's answer is      *)
(* free; the serial decider gives the same answer, echoing the subnode's   *)
(* value as its output.                                                    *)
(***************************************************************************)
\* The serial decision that makes the homogeneous decision dec and echoes
\* the subnode value v.
Echo(dec, v) ==
    CASE dec.tag = "Step" -> Step(v)
      [] dec.tag = "Trans" -> Trans(dec.e, v)
      [] dec.tag = "Exit" -> Exit(dec.x)

\* The value a subnode result carries.
SubValue(sub) == IF sub.tag = "Nonterminal" THEN sub.r ELSE sub.t

PairConstructions ==
    {[s |-> SerialBranchNode_new("PolicyA", e),
      h |-> HomogeneousSerialNode_new("HPolicyA", e), how |-> "new", sel |-> e] :
        e \in Discriminants}
    \cup {[s |-> from_existing("PolicyA", Variant("Counter", v)),
           h |-> from_existing_node("HPolicyA", N_node("Counter", v)),
           how |-> "existing", sel |-> "Counter"] : v \in 1..MaxCount}

InitPair ==
    \E k \in PairConstructions :
        /\ pool = (1 :> k.s) @@ (2 :> k.h)
        /\ born = (1 :> [how |-> k.how, sel |-> k.sel, decider |-> "PolicyA"])
                    @@ (2 :> [how |-> k.how, sel |-> k.sel, decider |-> "HPolicyA"])
        /\ nextId = 3
        /\ consumed = {}
        /\ last = NoStep
        /\ hist = <<>>

\* The instances the caller owns after stepping is and ih, by what the two
\* steps returned.
PairPool(old, is, ih, rs, rh, cs, ch) ==
    LET keep == Owned(Owned(DOMAIN old, is), ih)
        new == (IF rs.tag = "Nonterminal" THEN {nextId} ELSE {})
                  \cup (IF rh.tag = "Nonterminal" THEN {nextId + 1} ELSE {})
    IN  [i \in keep \cup new |->
            IF i \in keep THEN old[i] ELSE IF i = nextId THEN cs ELSE ch]

\* Both composites are stepped with the same input and the same choice.
PairStep(input) ==
    /\ nextId <= 2 * MaxSteps
    /\ \E is, ih \in DOMAIN pool :
        /\ pool[is].kind = "SerialBranchNode"
        /\ pool[ih].kind = "HomogeneousSerialNode"
        /\ \E os \in SerialBranchNode_step(pool[is], input),
              oh \in HomogeneousSerialNode_step(pool[ih], input) :
            /\ os.decision = Echo(oh.decision, SubValue(os.sub))
            /\ os.sub.tag = "Nonterminal" => os.sub.n.val <= MaxCount
            /\ pool' = PairPool(pool, is, ih, os.result, oh.result,
                                IF os.result.tag = "Nonterminal"
                                THEN os.result.n ELSE pool[is],
                                IF oh.result.tag = "Nonterminal"
                                THEN oh.result.n ELSE pool[ih])
            /\ born' = PairPool(born, is, ih, os.result, oh.result,
                                born[is], born[ih])
            /\ nextId' = nextId + 2
            /\ consumed' = consumed \cup {is, ih}
            /\ last' = [op |-> "pair", input |-> input,
                        pres |-> pool[is], preh |-> pool[ih],
                        outs |-> os, outh |-> oh]
            /\ UNCHANGED hist

NextPair == \E input \in Inputs : PairStep(input)

SpecPair == InitPair /\ [][NextPair]_vars

(***************************************************************************)
(* A composite as the subnode of another: enum_node! instantiated as Tree, *)
(* whose variants Left and Right each hold a SerialBranchNode over         *)
(* MultiMachine, and a SerialBranchNode over Tree.                         *)
(***************************************************************************)
TreeDiscriminants == {"Left", "Right"}

\* A value Tree::$variant(payload).
TreeVariant(name, val) == [tag |-> "Tree::" \o name, val |-> val]

\* The constructor expression of each variant of Tree.
TreeInitial(name) ==
    CASE name = "Left"  -> SerialBranchNode_new("PolicyA", "Positive")
      [] name = "Right" -> SerialBranchNode_new("PolicyB", "Counter")

\* EnumNode::new for Tree.
Tree_new(selector) ==
    CASE selector = "Left"  -> TreeVariant("Left", TreeInitial("Left"))
      [] selector = "Right" -> TreeVariant("Right", TreeInitial("Right"))

\* EnumNode::discriminant_of for Tree.
Tree_discriminant_of(self) ==
    CASE self.tag = "Tree::Left"  -> "Left"
      [] self.tag = "Tree::Right" -> "Right"

\* One arm of BehaviorTreeNode::step for Tree: every result the inner
\* composite's step allows, a continuation put back under the same variant.
TreeArm(name, val, input) ==
    {[inner |-> io,
      res |-> IF io.result.tag = "Nonterminal"
              THEN Nonterminal(io.result.r, TreeVariant(name, io.result.n))
              ELSE Terminal(io.result.t)] :
        io \in SerialBranchNode_step(val, input)}

\* BehaviorTreeNode::step for Tree.
Tree_step(self, input) ==
    CASE self.tag = "Tree::Left"  -> TreeArm("Left", self.val, input)
      [] self.tag = "Tree::Right" -> TreeArm("Right", self.val, input)

\* The values the outer decider may hand back for the inner composite's
\* NontermReturn o.
TreeOutputs(o) == {o, NontermReturn_Nonterminal("Positive", OtherOutput)}

\* SerialDecider::on_nonterminal of the outer decider; o is the inner
\* composite's NontermReturn.
Tree_on_nonterminal(decider, input, e, o) ==
    {Step(j) : j \in TreeOutputs(o)}
        \cup {Trans(e2, j) : e2 \in TreeDiscriminants, j \in TreeOutputs(o)}
        \cup {Exit(x) : x \in ExitValues}

\* SerialDecider::on_terminal of the outer decider; o is the inner
\* composite's exit value.
Tree_on_terminal(decider, input, e, o) ==
    {Trans(e2, j) : e2 \in TreeDiscriminants, j \in ExitValues}
        \cup {Exit(x) : x \in ExitValues}

\* SerialBranchNode::new over Tree.
Nested_new(decider, variant) ==
    [kind |-> "SerialBranchNode", node |-> Tree_new(variant), decider |-> decider]

\* Outer nonterminal arms in which a transition to the selector already
\* active keeps the running inner composite.
Nested_NontermArm_TransToSelfKeeps(self, selector, n, dec) ==
    CASE dec.tag = "Step" ->
            Nonterminal(NontermReturn_Nonterminal(selector, dec.j),
                        from_existing(self.decider, n))
      [] dec.tag = "Trans" ->
            Nonterminal(NontermReturn_Nonterminal(selector, dec.j),
                        IF dec.e = selector
                        THEN from_existing(self.decider, n)
                        ELSE Nested_new(self.decider, dec.e))
      [] dec.tag = "Exit" -> Terminal(dec.x)

\* The nonterminal arms of step, over Tree.
Nested_NontermArm(self, selector, n, dec) ==
    CASE dec.tag = "Step" ->
            Nonterminal(NontermReturn_Nonterminal(selector, dec.j),
                        from_existing(self.decider, n))
      [] dec.tag = "Trans" ->
            Nonterminal(NontermReturn_Nonterminal(selector, dec.j),
                        Nested_new(self.decider, dec.e))
      [] dec.tag = "Exit" -> Terminal(dec.x)

\* The terminal arms of step, over Tree.
Nested_TermArm(self, selector, dec) ==
    CASE dec.tag = "Trans" ->
            Nonterminal(NontermReturn_Terminal(selector, dec.j),
                        Nested_new(self.decider, dec.e))
      [] dec.tag = "Exit" -> Terminal(dec.x)

\* What one run of the outer step did: the inner composite's run, the
\* result Tree's step made of it, the decider call and its answer, and the
\* NodeResult returned.
NestedOutcome(selector, inner, sub, call, dec, result) ==
    [discriminant |-> selector, inner |-> inner, sub |-> sub, call |-> call,
     decision |-> dec, result |-> result]

\* BehaviorTreeNode::step for SerialBranchNode over Tree.
Nested_step(self, input) ==
    LET selector == Tree_discriminant_of(self.node)
    IN  UNION {
            IF s.res.tag = "Nonterminal"
            THEN {NestedOutcome(selector, s.inner, s.res,
                                CallDecider("on_nonterminal", input, selector,
                                            s.res.r),
                                dec,
                                Nested_NontermArm(self, selector, s.res.n, dec)) :
                    dec \in Tree_on_nonterminal(self.decider, input, selector,
                                                s.res.r)}
            ELSE {NestedOutcome(selector, s.inner, s.res,
                                CallDecider("on_terminal", input, selector,
                                            s.res.t),
                                dec, Nested_TermArm(self, selector, dec)) :
                    dec \in Tree_on_terminal(self.decider, input, selector,
                                             s.res.t)} :
            s \in Tree_step(self.node, input)}

InitNested ==
    \E D \in {"PolicyA", "PolicyB"}, e \in TreeDiscriminants :
        /\ pool = (1 :> Nested_new(D, e))
        /\ born = (1 :> [how |-> "new", sel |-> e, decider |-> D])
        /\ nextId = 2
        /\ consumed = {}
        /\ last = NoStep
        /\ hist = <<>>

\* The caller steps the outer composite it owns and keeps the continuation.
NestedStep(input) ==
    /\ nextId <= MaxSteps + 1
    /\ \E id \in DOMAIN pool :
        \E o \in Nested_step(pool[id], input) :
            /\ o.inner.sub.tag = "Nonterminal" => o.inner.sub.n.val <= MaxCount
            /\ pool' = IF o.result.tag = "Nonterminal"
                       THEN (nextId :> o.result.n)
                       ELSE [i \in {} |-> pool[id]]
            /\ born' = IF o.result.tag = "Nonterminal"
                       THEN (nextId :> [how |-> IF o.decision.tag = "Trans"
                                                THEN "trans" ELSE "step",
                                        sel |-> Tree_discriminant_of(o.result.n.node),
                                        decider |-> o.result.n.decider])
                       ELSE [i \in {} |-> born[id]]
            /\ nextId' = nextId + 1
            /\ consumed' = consumed \cup {id}
            /\ last' = [op |-> "nested", input |-> input, pre |-> pool[id],
                        out |-> o]
            /\ UNCHANGED hist

NextNested == \E input \in Inputs : NestedStep(input)

SpecNested == InitNested /\ [][NextNested]_vars

(***************************************************************************)
(* Two SerialBranchNodes built alike and stepped, in any interleaving,     *)
(* with one input sequence.  The instances of the first have odd ids, the  *)
(* instances of the second even ids; hist is the run of whichever is       *)
(* ahead.                                                                  *)
(***************************************************************************)
\* The length of the input sequence the twins are stepped with.
MaxTwinSteps == 2

Twins == {1, 2}

\* The instances of twin who that were stepped, and so how many steps it
\* has taken.
TwinConsumed(who) == {i \in consumed : i % 2 = who % 2}
TwinPosition(who) == Cardinality(TwinConsumed(who))

\* The id of the instance twin who holds after k steps.
TwinId(who, k) == who + 2 * k

\* The part of the pool that belongs to twin who.
TwinPart(p, who) == [i \in {j \in DOMAIN p : j % 2 = who % 2} |-> p[i]]

InitTwin ==
    \E k \in {c \in Constructions : c.how = "new" /\ c.c.kind = "SerialBranchNode"} :
        /\ pool = (1 :> k.c) @@ (2 :> k.c)
        /\ born = (1 :> [how |-> "new", sel |-> k.sel, decider |-> k.c.decider])
                    @@ (2 :> [how |-> "new", sel |-> k.sel, decider |-> k.c.decider])
        /\ nextId = 3
        /\ consumed = {}
        /\ last = NoStep
        /\ hist = <<>>

\* The decider call of one run of step.
TwinCall(out) == out.calls[3]

\* Equal deciders: asked what the twin ahead asked at its k-th step, the
\* decider gives the answer it gave then.
SameAnswer(k, out) ==
    (k <= Len(hist) /\ TwinCall(out) = hist[k].call) =>
        out.decision = hist[k].decision

\* Twin who takes its next step: with the next input of the sequence, or,
\* being ahead, with a new one.
TwinStep(who, input) ==
    LET k == TwinPosition(who) + 1
        id == TwinId(who, k - 1)
    IN  /\ k <= MaxTwinSteps
        /\ id \in DOMAIN pool
        /\ k <= Len(hist) => input = hist[k].input
        /\ \E out \in SerialBranchNode_step(pool[id], input) :
            LET keep == Owned(DOMAIN pool, id)
                cont == out.result.tag = "Nonterminal"
                made == IF cont THEN {TwinId(who, k)} ELSE {}
            IN  /\ out.sub.tag = "Nonterminal" => out.sub.n.val <= MaxCount
                /\ SameAnswer(k, out)
                /\ pool' = [i \in keep \cup made |->
                                IF i \in keep THEN pool[i] ELSE out.result.n]
                /\ born' = [i \in keep \cup made |->
                                IF i \in keep THEN born[i]
                                ELSE [born[id] EXCEPT !.how = "step"]]
                /\ nextId' = IF cont /\ TwinId(who, k) >= nextId
                             THEN TwinId(who, k) + 1 ELSE nextId
                /\ consumed' = consumed \cup {id}
                /\ hist' = IF k <= Len(hist) THEN hist
                           ELSE Append(hist, [input |-> input,
                                              call |-> TwinCall(out),
                                              decision |-> out.decision,
                                              result |-> out.result])
                /\ last' = [op |-> "twin", who |-> who, k |-> k, input |-> input,
                            out |-> out,
                            other |-> TwinPart(pool, 3 - who)]

NextTwin == \E who \in Twins, input \in Inputs : TwinStep(who, input)

SpecTwin == InitTwin /\ [][NextTwin]_vars

(***************************************************************************)
(* behavior_tree_node.rs: the Try conversions of Statepoint and NodeResult *)
(* (feature try_trait), applied to values the caller makes up.             *)
(***************************************************************************)
Ok(v) == [tag |-> "Ok", v |-> v]
Err(e) == [tag |-> "Err", e |-> e]

\* <Statepoint as Try>::into_result.
Statepoint_into_result(self) ==
    CASE self.tag = "Nonterminal" -> Ok(self.n)
      [] self.tag = "Terminal" -> Err(self.t)

\* <Statepoint as Try>::from_error.
Statepoint_from_error(term) == Statepoint_Terminal(term)

\* <Statepoint as Try>::from_ok.
Statepoint_from_ok(nonterm) == Statepoint_Nonterminal(nonterm)

\* into_result with Ok and Err exchanged.
NodeResult_into_result_Swapped(self) ==
    CASE self.tag = "Nonterminal" -> Err(<<self.r, self.n>>)
      [] self.tag = "Terminal" -> Ok(self.t)

\* <NodeResult as Try>::into_result.
NodeResult_into_result(self) ==
    CASE self.tag = "Nonterminal" -> Ok(<<self.r, self.n>>)
      [] self.tag = "Terminal" -> Err(self.t)

\* <NodeResult as Try>::from_error.
NodeResult_from_error(term) == Terminal(term)

\* <NodeResult as Try>::from_ok.
NodeResult_from_ok(nonterm) == Nonterminal(nonterm[1], nonterm[2])

\* i64 payloads.
TryValues == MinInt..MaxInt

InitTry ==
    /\ pool = [i \in {} |-> NoStep]
    /\ born = [i \in {} |-> NoStep]
    /\ nextId = 1
    /\ consumed = {}
    /\ last = NoStep
    /\ hist = <<>>

\* The ways a value of either type is made.
Makers == {"Nonterminal", "Terminal", "from_ok", "from_error"}

\* A Statepoint is made, directly or through from_ok / from_error, and
\* converted.
TryStatepoint ==
    \E v \in TryValues, via \in Makers :
        LET value == CASE via = "Nonterminal" -> Statepoint_Nonterminal(v)
                       [] via = "Terminal" -> Statepoint_Terminal(v)
                       [] via = "from_ok" -> Statepoint_from_ok(v)
                       [] via = "from_error" -> Statepoint_from_error(v)
        IN  /\ last' = [op |-> "try", type |-> "Statepoint", via |-> via,
                        arg |-> v, value |-> value,
                        res |-> Statepoint_into_result(value)]
            /\ UNCHANGED <<pool, born, nextId, consumed, hist>>

\* A NodeResult is made, directly or through from_ok / from_error, and
\* converted; its continuation is an enumerated node.
TryNodeResult ==
    \E v \in TryValues, n \in EnumNodes, via \in Makers :
        LET value == CASE via = "Nonterminal" -> Nonterminal(v, n)
                       [] via = "Terminal" -> Terminal(v)
                       [] via = "from_ok" -> NodeResult_from_ok(<<v, n>>)
                       [] via = "from_error" -> NodeResult_from_error(v)
        IN  /\ last' = [op |-> "try", type |-> "NodeResult", via |-> via,
                        arg |-> IF via \in {"Nonterminal", "from_ok"}
                                THEN <<v, n>> ELSE <<v>>,
                        value |-> value,
                        res |-> NodeResult_into_result(value)]
            /\ UNCHANGED <<pool, born, nextId, consumed, hist>>

NextTry == TryStatepoint \/ TryNodeResult

SpecTry == InitTry /\ [][NextTry]_vars

(***************************************************************************)
(* Default construction of the two composites.  The selector type of a     *)
(* SerialBranchNode is FromPrimitive: "Derived" is the $itername that      *)
(* enum_node! generates (indices from 0 in declaration order), "OneBased"  *)
(* a selector type whose indices start at 1.                               *)
(***************************************************************************)
Some(v) == [tag |-> "Some", v |-> v]
None == [tag |-> "None"]

SelectorTypes == {"Derived", "OneBased"}

\* FromPrimitive::from_u64 for the selector type.
from_u64(type, n) ==
    LET k == IF type = "Derived" THEN n ELSE n - 1
    IN  CASE k = 0 -> Some("Positive")
          [] k = 1 -> Some("Negative")
          [] k = 2 -> Some("Counter")
          [] OTHER -> None

\* D::default() of the generic decider type.
Decider_default == "PolicyA"

Panic == [kind |-> "panic"]

\* default() that falls back on the selector type's next index.
SerialBranchNode_default_NextIndex(type) ==
    LET first == from_u64(type, 0)
    IN  SerialBranchNode_new(Decider_default,
                             IF first = None THEN from_u64(type, 1).v ELSE first.v)

\* <SerialBranchNode as Default>::default: Option::unwrap panics on None.
SerialBranchNode_default(type) ==
    LET first == from_u64(type, 0)
    IN  IF first = None THEN Panic
        ELSE SerialBranchNode_new(Decider_default, first.v)

\* <HomogeneousSerialNode as Default>::default; enumerator_default is
\* E::Enumerator::default().
HomogeneousSerialNode_default(D, enumerator_default) ==
    HomogeneousSerialNode_new(D, enumerator_default)

DefaultConstructions ==
    {[c |-> SerialBranchNode_default(type), kind |-> "SerialBranchNode",
      type |-> type] : type \in SelectorTypes}
    \cup {[c |-> HomogeneousSerialNode_default(D, e),
           kind |-> "HomogeneousSerialNode", type |-> e] :
            D \in HomogeneousDeciders, e \in Discriminants}

InitDefault ==
    \E k \in DefaultConstructions :
        /\ pool = IF k.c = Panic THEN [i \in {} |-> Panic] ELSE [i \in {1} |-> k.c]
        /\ born = IF k.c = Panic THEN [i \in {} |-> Panic]
                  ELSE [i \in {1} |-> [how |-> "default",
                                       sel |-> SelectorOf(k.c),
                                       decider |-> k.c.decider]]
        /\ nextId = 2
        /\ consumed = {}
        /\ last = [op |-> "default", kind |-> k.kind, type |-> k.type,
                   panicked |-> k.c = Panic]
        /\ hist = <<>>

SpecDefault == InitDefault /\ [][Next]_vars

(***************************************************************************)
(* Properties.  last is the record of the step just taken: the instance    *)
(* stepped (pre), how it came to be (preBorn), what step did (out) and the *)
(* identity of the continuation (cont, 0 when there is none).  born[id]    *)
(* records, for an owned instance, the selector of the variant last built  *)
(* for it, whether a construction, a transition or a step produced it, and *)
(* the decider its first ancestor was constructed with.                    *)
(***************************************************************************)
SerialStepped == last.op = "step" /\ last.pre.kind = "SerialBranchNode"

DeciderCalls(calls) ==
    {i \in DOMAIN calls : calls[i].op \in {"on_nonterminal", "on_terminal"}}

\* C1: in every SerialBranchNode step, whatever the decision, the selector
\* handed to the decider and the selector inside the returned NontermReturn
\* are the selector that was active before the step (the variant last built
\* for the stepped instance), not the selector a Transition goes to.
PreStepSelectorReported ==
    SerialStepped =>
        /\ \A i \in DeciderCalls(last.out.calls) :
                last.out.calls[i].e = last.preBorn.sel
        /\ last.out.result.tag = "Nonterminal" =>
                last.out.result.r.e = last.preBorn.sel

\* C1 witness: a terminal subnode result answered by a Transition to another
\* selector, on an instance that itself came from a Transition.
PreStepSelectorReported_Witness ==
    /\ SerialStepped
    /\ last.preBorn.how = "trans"
    /\ last.out.sub.tag = "Terminal"
    /\ last.out.decision.tag = "Trans"
    /\ last.out.decision.e # last.preBorn.sel
    /\ last.out.result.r.e = last.preBorn.sel

\* C2: after a Transition decision to s2 the composite holds exactly the
\* node construct(s2) builds (no step taken yet), and when that composite is
\* stepped its subnode answers as a freshly constructed s2 node does.
FreshAfterTransition ==
    /\ \A id \in DOMAIN pool :
            (pool[id].kind = "SerialBranchNode" /\ born[id].how = "trans") =>
                /\ pool[id].node = EnumNode_new(born[id].sel)
                /\ ValOf(pool[id]) = 0
    /\ (SerialStepped /\ last.preBorn.how = "trans") =>
            last.out.sub = EnumNode_step(EnumNode_new(last.preBorn.sel), last.input)

\* C2 witness: a Counter that has counted is abandoned by a Transition to
\* Counter itself, and the composite now holds a Counter at zero.
FreshAfterTransition_Witness ==
    /\ SerialStepped
    /\ last.pre.node = Variant("Counter", 1)
    /\ last.out.sub.tag = "Nonterminal"
    /\ last.out.sub.n = Variant("Counter", 2)
    /\ last.out.decision.tag = "Trans"
    /\ last.out.decision.e = "Counter"
    /\ last.cont \in DOMAIN pool
    /\ pool[last.cont].node = Variant("Counter", 0)

TerminalIffExit ==
    SerialStepped =>
        /\ last.out.result.tag = "Terminal" <=> last.out.decision.tag = "Exit"
        /\ last.out.decision.tag = "Exit" =>
                last.out.result = [tag |-> "Terminal", t |-> last.out.decision.x]
        /\ last.out.decision.tag # "Exit" =>
                /\ last.out.result.tag = "Nonterminal"
                /\ last.cont \in DOMAIN pool
                /\ pool[last.cont].kind = "SerialBranchNode"

\* C4 witness: the subnode went terminal, the decider transitioned, and the
\* composite goes on.
TerminalIffExit_Witness ==
    /\ SerialStepped
    /\ last.out.sub.tag = "Terminal"
    /\ last.out.decision.tag = "Trans"
    /\ last.out.result.tag = "Nonterminal"
    /\ last.cont \in DOMAIN pool

\* C5: on a Step decision the next composite holds the continuation the
\* subnode returned, under the pre-step selector, with the subnode's
\* progress (a Counter has counted one more step).
StepKeepsContinuation ==
    (SerialStepped /\ last.out.decision.tag = "Step") =>
        /\ last.cont \in DOMAIN pool
        /\ pool[last.cont].node = last.out.sub.n
        /\ SelectorOf(pool[last.cont]) = last.preBorn.sel
        /\ last.preBorn.sel = "Counter" =>
                ValOf(pool[last.cont]) = ValOf(last.pre) + 1

\* C5 witness: a Counter that had counted once is stepped again and kept.
StepKeepsContinuation_Witness ==
    /\ SerialStepped
    /\ last.out.decision.tag = "Step"
    /\ last.preBorn.how = "step"
    /\ last.pre.node = Variant("Counter", 1)
    /\ pool[last.cont].node = Variant("Counter", 2)

\* C6: the selector a live SerialBranchNode's enumerated node reports is the
\* variant last built for it: the initial selector while no Transition has
\* happened, afterwards the target of the most recent Transition.
SelectorMatchesLastBuilt ==
    \A id \in DOMAIN pool :
        pool[id].kind = "SerialBranchNode" =>
            discriminant_of(pool[id].node) = born[id].sel

\* C6 witness: after a Transition away from the initial selector and a Step
\* on the new variant, the composite reports the Transition's target.
SelectorMatchesLastBuilt_Witness ==
    /\ SerialStepped
    /\ last.preBorn.how = "trans"
    /\ last.out.decision.tag = "Step"
    /\ last.cont \in DOMAIN pool
    /\ born[last.cont].sel = "Counter"
    /\ discriminant_of(pool[last.cont].node) = "Counter"
    /\ pool[last.cont].node.val = 1

\* C7: selector_of(construct(s)) = s for every selector s, and so for every
\* node the composite has just built from a selector (at construction or on
\* a Transition).
SelectorFidelity ==
    /\ \A s \in Discriminants : discriminant_of(EnumNode_new(s)) = s
    /\ \A id \in DOMAIN pool :
            (pool[id].kind = "SerialBranchNode" /\ born[id].how \in {"new", "trans"}) =>
                discriminant_of(pool[id].node) = born[id].sel

\* C7 witness: the caller owns nodes freshly built from two different
\* selectors, one of them Negative.
SelectorFidelity_Witness ==
    \E i, j \in DOMAIN pool :
        /\ pool[i].kind = "SerialBranchNode"
        /\ born[i].how = "trans" /\ born[i].sel = "Negative"
        /\ discriminant_of(pool[i].node) = "Negative"
        /\ born[j].how = "new" /\ born[j].sel = "Counter"
        /\ discriminant_of(pool[j].node) = "Counter"

\* C8: a composite step (of either composite type) asks the decider exactly
\* once, after the one step of the active subnode, through on_nonterminal
\* when the subnode's result was nonterminal and on_terminal when it was
\* terminal.
DeciderOnceAfterSubnode ==
    last.op = "step" =>
        LET calls == last.out.calls
            asked == DeciderCalls(calls)
            stepped == {i \in DOMAIN calls : calls[i].op = "node.step"}
        IN  /\ Cardinality(asked) = 1
            /\ Cardinality(stepped) = 1
            /\ \A i \in asked, j \in stepped : j < i
            /\ \A i \in asked :
                    calls[i].op = IF last.out.sub.tag = "Nonterminal"
                                  THEN "on_nonterminal" ELSE "on_terminal"
            /\ last.out.sub.tag = "Terminal" => last.out.decision.tag # "Step"

\* C8 witness: a nonterminal subnode result put to on_nonterminal, which
\* chose Exit.
DeciderOnceAfterSubnode_Witness ==
    /\ SerialStepped
    /\ last.out.sub.tag = "Nonterminal"
    /\ last.out.calls[Len(last.out.calls)].op = "on_nonterminal"
    /\ last.out.decision.tag = "Exit"

\* C9: when the active subnode's result is terminal the decision is a
\* Transition or an Exit; after the Transition the next composite holds the
\* freshly constructed target variant, after the Exit there is no next
\* composite.
TerminalSubnodeNotKept ==
    (SerialStepped /\ last.out.sub.tag = "Terminal") =>
        /\ last.out.decision.tag \in {"Trans", "Exit"}
        /\ last.out.decision.tag = "Trans" =>
                /\ last.cont \in DOMAIN pool
                /\ pool[last.cont].node = EnumNode_new(last.out.decision.e)
                /\ ValOf(pool[last.cont]) = 0
        /\ last.out.decision.tag = "Exit" => last.cont = 0

\* C9 witness: a Counter at 2 goes terminal and the decider transitions to
\* Counter: the next composite holds a Counter at zero.
TerminalSubnodeNotKept_Witness ==
    /\ SerialStepped
    /\ last.pre.node = Variant("Counter", 2)
    /\ last.out.sub.tag = "Terminal"
    /\ last.out.decision = Trans("Counter", 2)
    /\ last.cont \in DOMAIN pool
    /\ pool[last.cont].node = Variant("Counter", 0)

\* C10: every SerialBranchNode of a lineage holds the decider its first
\* ancestor was constructed with: the continuation after a Step or a
\* Transition holds the decider the stepped composite held.
DeciderThreaded ==
    /\ \A id \in DOMAIN pool :
            pool[id].kind = "SerialBranchNode" => pool[id].decider = born[id].decider
    /\ (SerialStepped /\ last.out.result.tag = "Nonterminal") =>
            pool[last.cont].decider = last.pre.decider

\* C10 witness: a composite constructed with PolicyB still holds PolicyB
\* after a Transition followed by a Step.
DeciderThreaded_Witness ==
    /\ SerialStepped
    /\ last.preBorn.how = "trans"
    /\ last.preBorn.decider = "PolicyB"
    /\ last.out.decision.tag = "Step"
    /\ pool[last.cont].decider = "PolicyB"

(***************************************************************************)
(* The switcharound scenario (SpecSwitch).                                 *)
(***************************************************************************)
\* The inputs of serial_switcharound_test and the NontermReturn values it
\* asserts, step by step.
ScenarioInputs == <<5, -5, 5, -5, 5>>
ScenarioReturns ==
    <<NontermReturn_Nonterminal("Positive", 5),
      NontermReturn_Terminal("Positive", -5),
      NontermReturn_Nonterminal("Negative", -5),
      NontermReturn_Terminal("Negative", 5),
      NontermReturn_Nonterminal("Positive", 5)>>

Flip(e) == IF e = "Positive" THEN "Negative" ELSE "Positive"

\* The steps so far are the first k steps of the test.
FollowsScenario(k) ==
    /\ k <= Len(ScenarioInputs)
    /\ \A j \in 1..k : hist[j].input = ScenarioInputs[j]

\* C11: started at Positive and stepped with 5, -5, 5, -5, 5 the composite
\* returns Nonterminal(Positive, 5), Terminal(Positive, -5),
\* Nonterminal(Negative, -5), Terminal(Negative, 5), Nonterminal(Positive, 5),
\* each inside a nonterminal composite result with a continuation; and on
\* any inputs the active selector flips on the steps with a negative input
\* and stays on the others.
SwitcharoundScenario ==
    \A k \in 1..Len(hist) :
        /\ hist[k].before = IF k = 1 THEN "Positive" ELSE hist[k - 1].after
        /\ FollowsScenario(k) =>
                /\ hist[k].result = "Nonterminal"
                /\ hist[k].ret = ScenarioReturns[k]
                /\ hist[k].after \in PosNegEnum
        /\ hist[k].result = "Nonterminal" =>
                hist[k].after = IF hist[k].input < 0 THEN Flip(hist[k].before)
                                                     ELSE hist[k].before

\* C11 witness: the five steps of the test have been taken.
SwitcharoundScenario_Witness ==
    /\ Len(hist) = Len(ScenarioInputs)
    /\ FollowsScenario(Len(hist))
    /\ hist[5].ret = NontermReturn_Nonterminal("Positive", 5)
    /\ DOMAIN pool # {}

Returned(k) == hist[k].result # "panic"

\* C13 as stated: both variants, on an input < 0, go terminal returning the
\* negated input; on an input >= 0 they stay nonterminal returning the input
\* (negated under Negative).
VariantsNegateOnTerminal ==
    \A k \in 1..Len(hist) :
        Returned(k) =>
            IF hist[k].input >= 0
            THEN /\ hist[k].sub = "Nonterminal"
                 /\ hist[k].subval = IF hist[k].before = "Negative"
                                     THEN -hist[k].input ELSE hist[k].input
            ELSE /\ hist[k].sub = "Terminal"
                 /\ hist[k].subval = -hist[k].input

\* C13 amended: on an input >= 0 a variant stays nonterminal returning the
\* input (negated under Negative); on an input < 0 it goes terminal,
\* Positive returning the input itself and Negative the negated input, which
\* for i64::MIN wraps to i64::MIN where the step returns at all.
VariantsAsCoded ==
    \A k \in 1..Len(hist) :
        Returned(k) =>
            IF hist[k].input >= 0
            THEN /\ hist[k].sub = "Nonterminal"
                 /\ hist[k].subval = IF hist[k].before = "Negative"
                                     THEN -hist[k].input ELSE hist[k].input
            ELSE /\ hist[k].sub = "Terminal"
                 /\ hist[k].subval =
                        IF hist[k].before = "Positive" THEN hist[k].input
                        ELSE IF hist[k].input = MinInt THEN MinInt
                        ELSE -hist[k].input

\* C13 witness: both variants have been stepped with a negative and with a
\* non-negative input.
VariantsAsCoded_Witness ==
    \A e \in PosNegEnum :
        /\ \E k \in 1..Len(hist) :
                Returned(k) /\ hist[k].before = e /\ hist[k].input = -5
        /\ \E k \in 1..Len(hist) :
                Returned(k) /\ hist[k].before = e /\ hist[k].input = 5

(***************************************************************************)
(* The two composites side by side (SpecPair).                             *)
(***************************************************************************)
SerialOwned == {i \in DOMAIN pool : pool[i].kind = "SerialBranchNode"}
HomogeneousOwned == {i \in DOMAIN pool : pool[i].kind = "HomogeneousSerialNode"}

\* C14: built at the same selector and stepped with the same inputs, the
\* serial decider making the homogeneous decider's choices and echoing the
\* subnode's value, the two composites return the same result at every step
\* (tag, selector and value of the NontermReturn, or the exit value) and
\* afterwards run the same variant with the same progress, or are both gone.
HomogeneousMatchesSerial ==
    /\ Cardinality(SerialOwned) = Cardinality(HomogeneousOwned)
    /\ \A i \in SerialOwned, j \in HomogeneousOwned :
            /\ discriminant_of(pool[i].node) = discriminant(pool[j].node)
            /\ pool[i].node.val = inner_val(pool[j].node).val
    /\ last.op = "pair" =>
            /\ last.outs.sub.tag = last.outh.sub.tag
            /\ last.outs.result.tag = last.outh.result.tag
            /\ last.outs.result.tag = "Nonterminal" =>
                    last.outs.result.r = last.outh.result.r
            /\ last.outs.result.tag = "Terminal" =>
                    last.outs.result.t = last.outh.result.t

\* C14 witness: both composites, after earlier steps, answer a terminal
\* subnode result with a Transition to Counter and both hold a Counter at 0.
HomogeneousMatchesSerial_Witness ==
    /\ last.op = "pair"
    /\ last.pres.node = Variant("Counter", 2)
    /\ last.outh.sub.tag = "Terminal"
    /\ last.outh.decision = HTrans("Counter")
    /\ last.outs.result.r = NontermReturn_Terminal("Counter", 2)
    /\ \E i \in SerialOwned, j \in HomogeneousOwned :
            pool[i].node.val = 0 /\ inner_val(pool[j].node).val = 0

(***************************************************************************)
(* What the composite reports (Spec).                                      *)
(***************************************************************************)
AnyStepped == last.op = "step" /\ last.out.result.tag = "Nonterminal"

\* C15 as stated: the value in the composite's NontermReturn is the value
\* the subnode returned on that step, for both composite types.
ReturnCarriesSubnodeValue ==
    AnyStepped => last.out.result.r.v = SubValue(last.out.sub)

\* C15 amended: HomogeneousSerialNode reports the value the subnode
\* returned; SerialBranchNode reports the output carried by the decider's
\* decision, which is the subnode's value when the decider echoes it, as
\* Switcharound does.
ReturnCarriesValuePerComposite ==
    AnyStepped =>
        /\ last.pre.kind = "HomogeneousSerialNode" =>
                last.out.result.r.v = SubValue(last.out.sub)
        /\ last.pre.kind = "SerialBranchNode" =>
                /\ last.out.result.r.v = last.out.decision.j
                /\ last.pre.decider = "Switcharound" =>
                        last.out.result.r.v = SubValue(last.out.sub)

\* C15 witness: a SerialBranchNode reports an output of its decider that is
\* not the value its subnode returned.
ReturnCarriesValuePerComposite_Witness ==
    /\ AnyStepped
    /\ last.pre.kind = "SerialBranchNode"
    /\ last.out.sub.tag = "Terminal"
    /\ last.out.sub.t = -5
    /\ last.out.decision.j = OtherOutput
    /\ last.out.result.r.v = OtherOutput

\* C18: in every SerialBranchNode step the decider is called with the input
\* the subnode was just stepped with and with the value the subnode
\* returned, and the value in the composite's NontermReturn is the output of
\* the decider's Step / Transition decision.
DeciderSeesInputAndRawValue ==
    SerialStepped =>
        LET calls == last.out.calls
        IN  /\ \A i \in DOMAIN calls :
                    calls[i].op = "node.step" => calls[i].input = last.input
            /\ \A i \in DeciderCalls(calls) :
                    /\ calls[i].input = last.input
                    /\ calls[i].v = SubValue(last.out.sub)
                    /\ last.out.sub = EnumNode_step(last.pre.node, last.input)
            /\ last.out.result.tag = "Nonterminal" =>
                    /\ last.out.decision.tag \in {"Step", "Trans"}
                    /\ last.out.result.r.v = last.out.decision.j

\* C18 witness: the subnode, stepped with 5 under Negative, returned -5; the
\* decider was called with 5 and -5 and its output 9 is what is reported.
DeciderSeesInputAndRawValue_Witness ==
    /\ SerialStepped
    /\ last.input = 5
    /\ last.out.sub.tag = "Nonterminal"
    /\ last.out.sub.r = -5
    /\ last.out.calls[3] = CallDecider("on_nonterminal", 5, "Negative", -5)
    /\ last.out.decision = Step(OtherOutput)
    /\ last.out.result.r.v = OtherOutput

\* C19: the tag of the composite's NontermReturn is Nonterminal exactly
\* when the subnode's step was nonterminal (the decision being Step or
\* Transition) and Terminal exactly when the subnode's step was terminal
\* (the decision then being Transition).
ReturnTagFollowsSubnode ==
    (SerialStepped /\ last.out.result.tag = "Nonterminal") =>
        /\ last.out.result.r.tag = last.out.sub.tag
        /\ last.out.result.r.tag = "Nonterminal" =>
                last.out.decision.tag \in {"Step", "Trans"}
        /\ last.out.result.r.tag = "Terminal" => last.out.decision.tag = "Trans"

\* C19 witness: a nonterminal subnode result answered by a Transition is
\* reported under the tag Nonterminal.
ReturnTagFollowsSubnode_Witness ==
    /\ SerialStepped
    /\ last.out.sub.tag = "Nonterminal"
    /\ last.out.decision.tag = "Trans"
    /\ last.out.decision.e # last.preBorn.sel
    /\ last.out.result.tag = "Nonterminal"
    /\ last.out.result.r.tag = "Nonterminal"

(***************************************************************************)
(* The Try conversions (SpecTry).                                          *)
(***************************************************************************)
Tried == last.op = "try"

\* C17: for Statepoint and for NodeResult, from_ok(n).into_result() is
\* Ok(n) and from_error(t).into_result() is Err(t); a Nonterminal converts
\* to Ok and a Terminal to Err, with the payload unchanged (for NodeResult
\* the Ok payload is the pair of nonterminal value and continuation).
TryRoundTrips ==
    Tried =>
        /\ last.via = "from_ok" => last.res = [tag |-> "Ok", v |-> last.arg]
        /\ last.via = "from_error" =>
                last.res = [tag |-> "Err",
                            e |-> IF last.type = "NodeResult"
                                  THEN last.arg[1] ELSE last.arg]
        /\ last.value.tag = "Nonterminal" <=> last.res.tag = "Ok"
        /\ last.value.tag = "Terminal" <=> last.res.tag = "Err"
        /\ (last.type = "Statepoint" /\ last.value.tag = "Nonterminal") =>
                last.res.v = last.value.n
        /\ (last.type = "NodeResult" /\ last.value.tag = "Nonterminal") =>
                last.res.v = <<last.value.r, last.value.n>>
        /\ last.value.tag = "Terminal" => last.res.e = last.value.t
        /\ last.via \in {"Nonterminal", "from_ok"} => last.value.tag = "Nonterminal"
        /\ last.via \in {"Terminal", "from_error"} => last.value.tag = "Terminal"

\* C17 witness: NodeResult::from_ok((5, node)).into_result() is
\* Ok((5, node)) for a Counter continuation.
TryRoundTrips_Witness ==
    /\ Tried
    /\ last.type = "NodeResult"
    /\ last.via = "from_ok"
    /\ last.arg = <<5, Variant("Counter", 1)>>
    /\ last.res = [tag |-> "Ok", v |-> <<5, Variant("Counter", 1)>>]

(***************************************************************************)
(* Default construction (SpecDefault).                                     *)
(***************************************************************************)
\* C20: a default-constructed SerialBranchNode holds the default decider
\* and the freshly constructed variant of primitive index 0; where the
\* selector type has no value of index 0 construction panics and no
\* composite exists.  A default-constructed HomogeneousSerialNode starts at
\* the selector type's default value.
DefaultConstruction ==
    last.op = "default" =>
        /\ (last.kind = "SerialBranchNode" /\ last.type = "Derived") =>
                /\ ~last.panicked
                /\ pool[1] = [kind |-> "SerialBranchNode",
                              node |-> [tag |-> "MultiMachine::Positive", val |-> 0],
                              decider |-> "PolicyA"]
        /\ (last.kind = "SerialBranchNode" /\ last.type = "OneBased") =>
                /\ last.panicked
                /\ DOMAIN pool = {}
        /\ last.kind = "HomogeneousSerialNode" =>
                /\ ~last.panicked
                /\ discriminant(pool[1].node) = last.type
                /\ inner_val(pool[1].node) = [shape |-> last.type, val |-> 0]

\* C20 witness: default construction over the selector type without an
\* index 0 has panicked.
DefaultConstruction_Witness ==
    /\ last.op = "default"
    /\ last.kind = "SerialBranchNode"
    /\ last.type = "OneBased"
    /\ last.panicked
    /\ DOMAIN pool = {}

(***************************************************************************)
(* Nesting (SpecNested).                                                   *)
(***************************************************************************)
NestedStepped == last.op = "nested"

\* The selector of the outer composite before the step, read off its node.
OuterPreSelector == IF last.pre.node.tag = "Tree::Left" THEN "Left" ELSE "Right"

\* The inner composite each Tree variant starts from.
InnerInitial(e) ==
    IF e = "Left"
    THEN [kind |-> "SerialBranchNode",
          node |-> [tag |-> "MultiMachine::Positive", val |-> 0],
          decider |-> "PolicyA"]
    ELSE [kind |-> "SerialBranchNode",
          node |-> [tag |-> "MultiMachine::Counter", val |-> 0],
          decider |-> "PolicyB"]

\* C16: a composite nested in an outer composite is an ordinary node of the
\* step contract: when the inner decider answers Exit(x) the outer decider
\* is asked on_terminal with x and the outer pre-step selector; when the
\* inner composite returns nonterminal the outer decider is asked
\* on_nonterminal with the inner NontermReturn; an outer Trans makes the
\* continuation hold the inner composite of the target variant in its
\* initial state, and an outer Step keeps the inner continuation.
NestedIsOrdinaryNode ==
    NestedStepped =>
        LET o == last.out
            io == last.out.inner
        IN  /\ io.decision.tag = "Exit" =>
                    o.call = [op |-> "on_terminal", input |-> last.input,
                              e |-> OuterPreSelector, v |-> io.decision.x]
            /\ io.decision.tag # "Exit" =>
                    /\ io.result.tag = "Nonterminal"
                    /\ io.result.r.tag = (IF io.sub.tag = "Nonterminal"
                                           THEN "Nonterminal" ELSE "Terminal")
                    /\ o.call = [op |-> "on_nonterminal", input |-> last.input,
                                 e |-> OuterPreSelector, v |-> io.result.r]
            /\ o.decision.tag = "Trans" =>
                    /\ o.result.tag = "Nonterminal"
                    /\ o.result.n.node = [tag |-> "Tree::" \o o.decision.e,
                                          val |-> InnerInitial(o.decision.e)]
                    /\ o.result.n.decider = last.pre.decider
            /\ o.decision.tag = "Step" =>
                    /\ io.result.tag = "Nonterminal"
                    /\ o.result.n.node = [tag |-> last.pre.node.tag,
                                          val |-> io.result.n]
            /\ o.decision.tag = "Exit" <=> o.result.tag = "Terminal"

\* C16 witness: an inner composite that had progressed exits with x1; the
\* outer decider, asked on_terminal with x1, transitions to the selector
\* already active and the inner composite starts over.
NestedIsOrdinaryNode_Witness ==
    /\ NestedStepped
    /\ last.pre.node.tag = "Tree::Right"
    /\ last.pre.node.val.node = [tag |-> "MultiMachine::Counter", val |-> 2]
    /\ last.out.inner.decision = [tag |-> "Exit", x |-> "x1"]
    /\ last.out.call.op = "on_terminal"
    /\ last.out.call.v = "x1"
    /\ last.out.decision.tag = "Trans"
    /\ last.out.decision.e = "Right"
    /\ last.out.result.n.node.val.node = [tag |-> "MultiMachine::Counter", val |-> 0]

(***************************************************************************)
(* Determinism (SpecTwin).                                                 *)
(***************************************************************************)
TwinStepped == last.op = "twin"

\* What twin who holds: its live composite, or nothing once it has exited.
TwinHolds(who) ==
    {pool[i] : i \in {j \in DOMAIN pool : j % 2 = who % 2}}

====
